---------------------------- MODULE Spec2Model ----------------------------
(***************************************************************************)
(* The Database access layer of the School Management System               *)
(* (src/pyqt.py, class Database; src/tkinter.py holds the same class with  *)
(* tkinter message boxes).  The four SQLite tables are the state; every    *)
(* public write method of Database is one action.                          *)
(*                                                                         *)
(* SQLite facts the model relies on (all follow from the schema in         *)
(* create_tables and from sqlite3.connect being used with its defaults):   *)
(*   - INTEGER PRIMARY KEY AUTOINCREMENT gives a new row the id            *)
(*     sqlite_sequence.seq + 1 and never reuses an id;                     *)
(*   - PRAGMA foreign_keys is off, so FOREIGN KEY clauses are not enforced;*)
(*   - the columns of the composite PRIMARY KEY of student_courses are not *)
(*     declared NOT NULL, so they accept NULL, and rows holding a NULL     *)
(*     never collide in the uniqueness check;                              *)
(*   - "col = ?" with a NULL parameter selects no row.                     *)
(***************************************************************************)
EXTENDS Integers, Sequences, FiniteSets, Bags, TLC

VARIABLES
    students,        \* set of rows [student_id, name, age, email]
    instructors,     \* set of rows [instructor_id, name, age, email]
    courses,         \* set of rows [course_id, course_name, instructor_id]
    student_courses, \* bag of rows [student_id, course_id]
    seq,             \* sqlite_sequence: last id handed out, per table
    lastCall,        \* name of the Database method called last
    dialogs,         \* the message boxes that call showed, in order
    raised,          \* exception that left the last handler uncaught, or "none"
    pyqt,            \* items of the tables and dropdowns of src/pyqt.py's window
    tkinter,         \* items of the trees and dropdowns of src/tkinter.py's window
    window           \* the front-end that is running: "pyqt" or "tkinter"

tables == <<students, instructors, courses, student_courses, seq>>
widgets == <<pyqt, tkinter, window>>
vars == <<students, instructors, courses, student_courses, seq, lastCall, dialogs,
          raised, pyqt, tkinter, window>>

-----------------------------------------------------------------------------
(* Bounds of the model *)

\* ids handed out per table (cap on each sqlite_sequence counter)
MaxId == 2
\* rows in student_courses
MaxEnroll == 2
\* tree items beyond which the tkinter add handlers are no longer followed
MaxTree == 2

-----------------------------------------------------------------------------
(* SQL values: a nullable INTEGER is NULL or Val(i); Python's None binds to NULL *)

NULL == <<>>
Val(i) == <<i>>

\* str() of a bound value, as the f-strings of the error messages format it
DecimalDigits == <<"0", "1", "2", "3", "4", "5", "6", "7", "8", "9">>
RECURSIVE StrNat(_)
StrNat(n) == IF n < 10 THEN DecimalDigits[n + 1]
             ELSE StrNat(n \div 10) \o DecimalDigits[(n % 10) + 1]
StrInt(i) == IF i < 0 THEN "-" \o StrNat(-i) ELSE StrNat(i)
Str(v) == IF v = NULL THEN "None" ELSE StrInt(v[1])

-----------------------------------------------------------------------------
(* validate_email: re.match(r'^[a-zA-Z0-9._%+-]+@[a-zA-Z0-9.-]+\.[a-zA-Z]{2,}$') *)
(* An email is a sequence of one-character strings.                         *)

Lower == {"a", "b", "c", "d", "e", "f", "g", "h", "i", "j", "k", "l", "m",
          "n", "o", "p", "q", "r", "s", "t", "u", "v", "w", "x", "y", "z"}
Upper == {"A", "B", "C", "D", "E", "F", "G", "H", "I", "J", "K", "L", "M",
          "N", "O", "P", "Q", "R", "S", "T", "U", "V", "W", "X", "Y", "Z"}
Digit == {"0", "1", "2", "3", "4", "5", "6", "7", "8", "9"}
LocalChars == Lower \cup Upper \cup Digit \cup {".", "_", "%", "+", "-"}
DomainChars == Lower \cup Upper \cup Digit \cup {".", "-"}
TldChars == Lower \cup Upper

\* the pattern between ^ and $ consumes the whole of t
MatchesWhole(t) ==
    \E i \in 1..Len(t), j \in 1..Len(t) :
        /\ t[i] = "@" /\ t[j] = "."
        /\ i > 1 /\ \A k \in 1..(i - 1) : t[k] \in LocalChars
        /\ j > i + 1 /\ \A k \in (i + 1)..(j - 1) : t[k] \in DomainChars
        /\ Len(t) - j >= 2 /\ \A k \in (j + 1)..Len(t) : t[k] \in TldChars

\* Python's $ matches at the end of the string and just before a final newline
validate_email(email) ==
    \/ MatchesWhole(email)
    \/ /\ Len(email) > 0
       /\ email[Len(email)] = "\n"
       /\ MatchesWhole(SubSeq(email, 1, Len(email) - 1))

-----------------------------------------------------------------------------
(* Message boxes *)

show_error(title, message) == [icon |-> "Critical", title |-> title, text |-> message]
show_info(title, message) == [icon |-> "Information", title |-> title, text |-> message]

-----------------------------------------------------------------------------
(* State after Database.__init__ on a fresh file: create_tables made four  *)
(* empty tables.  One of the two front-ends is running, and every widget   *)
(* of its window was loaded from the empty tables.                         *)

\* the widgets of a window with no row loaded into them, which is also how
\* the widgets of the front-end that is not running are held
no_pyqt ==
    [student_table |-> <<>>, instructor_table |-> <<>>, course_table |-> <<>>,
     student_dropdown |-> <<>>, course_dropdown |-> <<>>,
     assign_course_dropdown |-> <<>>, assign_instructor_dropdown |-> <<>>]
no_tkinter ==
    [student_tree |-> <<>>, instructor_tree |-> <<>>, course_tree |-> <<>>,
     student_dropdown |-> <<>>, instructor_dropdown |-> <<>>,
     course_dropdown |-> <<>>]

fresh_file ==
    /\ students = {}
    /\ instructors = {}
    /\ courses = {}
    /\ student_courses = EmptyBag
    /\ seq = [students |-> 0, instructors |-> 0, courses |-> 0]
    /\ lastCall = "__init__"
    /\ raised = "none"
    /\ dialogs = <<>>
    /\ pyqt = no_pyqt
    /\ tkinter = no_tkinter

\* src/pyqt.py was started
Init == fresh_file /\ window = "pyqt"

\* either front-end was started
InitEither == fresh_file /\ window \in {"pyqt", "tkinter"}

-----------------------------------------------------------------------------
(* Students and instructors *)

\* add_student on a table declared without AUTOINCREMENT: the new rowid is one
\* more than the largest rowid now in the table
add_student_MaxRowid(name, age, email) ==
    /\ lastCall' = "add_student"
    /\ raised' = "none"
    /\ IF ~validate_email(email)
       THEN /\ dialogs' = <<show_error("Error", "Invalid email format.")>>
            /\ UNCHANGED tables
       ELSE IF age <= 0
       THEN /\ dialogs' = <<show_error("Error", "Age must be positive.")>>
            /\ UNCHANGED tables
       ELSE /\ seq.students < MaxId
            /\ students' = students \cup
                   {[student_id |->
                        IF students = {} THEN 1
                        ELSE 1 + CHOOSE m \in {r.student_id : r \in students} :
                                    \A r \in students : r.student_id <= m,
                     name |-> name, age |-> age, email |-> email]}
            /\ seq' = [seq EXCEPT !.students = @ + 1]
            /\ dialogs' = <<show_info("Success", "Student added successfully.")>>
            /\ UNCHANGED <<instructors, courses, student_courses>>

\* add_student binding an emptied name field to the INSERT
add_student_NameLost(name, age, email) ==
    /\ lastCall' = "add_student"
    /\ raised' = "none"
    /\ IF ~validate_email(email)
       THEN /\ dialogs' = <<show_error("Error", "Invalid email format.")>>
            /\ UNCHANGED tables
       ELSE IF age <= 0
       THEN /\ dialogs' = <<show_error("Error", "Age must be positive.")>>
            /\ UNCHANGED tables
       ELSE /\ seq.students < MaxId
            /\ students' = students \cup
                   {[student_id |-> seq.students + 1, name |-> "",
                     age |-> age, email |-> email]}
            /\ seq' = [seq EXCEPT !.students = @ + 1]
            /\ dialogs' = <<show_info("Success", "Student added successfully.")>>
            /\ UNCHANGED <<instructors, courses, student_courses>>

\* add_student with the two validations in the other order
add_student_AgeFirst(name, age, email) ==
    /\ lastCall' = "add_student"
    /\ raised' = "none"
    /\ IF age <= 0
       THEN /\ dialogs' = <<show_error("Error", "Age must be positive.")>>
            /\ UNCHANGED tables
       ELSE IF ~validate_email(email)
       THEN /\ dialogs' = <<show_error("Error", "Invalid email format.")>>
            /\ UNCHANGED tables
       ELSE /\ seq.students < MaxId
            /\ students' = students \cup
                   {[student_id |-> seq.students + 1, name |-> name,
                     age |-> age, email |-> email]}
            /\ seq' = [seq EXCEPT !.students = @ + 1]
            /\ dialogs' = <<show_info("Success", "Student added successfully.")>>
            /\ UNCHANGED <<instructors, courses, student_courses>>

add_student(name, age, email) ==
    /\ lastCall' = "add_student"
    /\ raised' = "none"
    /\ IF ~validate_email(email)
       THEN /\ dialogs' = <<show_error("Error", "Invalid email format.")>>
            /\ UNCHANGED tables
       ELSE IF age <= 0
       THEN /\ dialogs' = <<show_error("Error", "Age must be positive.")>>
            /\ UNCHANGED tables
       ELSE /\ seq.students < MaxId
            /\ students' = students \cup
                   {[student_id |-> seq.students + 1, name |-> name,
                     age |-> age, email |-> email]}
            /\ seq' = [seq EXCEPT !.students = @ + 1]
            /\ dialogs' = <<show_info("Success", "Student added successfully.")>>
            /\ UNCHANGED <<instructors, courses, student_courses>>

\* add_instructor refusing only negative ages (< written for <=)
add_instructor_AgeNegative(name, age, email) ==
    /\ lastCall' = "add_instructor"
    /\ raised' = "none"
    /\ IF ~validate_email(email)
       THEN /\ dialogs' = <<show_error("Error", "Invalid email format.")>>
            /\ UNCHANGED tables
       ELSE IF age < 0
       THEN /\ dialogs' = <<show_error("Error", "Age must be positive.")>>
            /\ UNCHANGED tables
       ELSE /\ seq.instructors < MaxId
            /\ instructors' = instructors \cup
                   {[instructor_id |-> seq.instructors + 1, name |-> name,
                     age |-> age, email |-> email]}
            /\ seq' = [seq EXCEPT !.instructors = @ + 1]
            /\ dialogs' = <<show_info("Success", "Instructor added successfully.")>>
            /\ UNCHANGED <<students, courses, student_courses>>

\* add_instructor with the return after the email error left out
add_instructor_NoReturn(name, age, email) ==
    /\ lastCall' = "add_instructor"
    /\ raised' = "none"
    /\ IF age <= 0
       THEN /\ dialogs' =
                (IF ~validate_email(email)
                 THEN <<show_error("Error", "Invalid email format.")>> ELSE <<>>)
                \o <<show_error("Error", "Age must be positive.")>>
            /\ UNCHANGED tables
       ELSE /\ seq.instructors < MaxId
            /\ instructors' = instructors \cup
                   {[instructor_id |-> seq.instructors + 1, name |-> name,
                     age |-> age, email |-> email]}
            /\ seq' = [seq EXCEPT !.instructors = @ + 1]
            /\ dialogs' =
                (IF ~validate_email(email)
                 THEN <<show_error("Error", "Invalid email format.")>> ELSE <<>>)
                \o <<show_info("Success", "Instructor added successfully.")>>
            /\ UNCHANGED <<students, courses, student_courses>>

add_instructor(name, age, email) ==
    /\ lastCall' = "add_instructor"
    /\ raised' = "none"
    /\ IF ~validate_email(email)
       THEN /\ dialogs' = <<show_error("Error", "Invalid email format.")>>
            /\ UNCHANGED tables
       ELSE IF age <= 0
       THEN /\ dialogs' = <<show_error("Error", "Age must be positive.")>>
            /\ UNCHANGED tables
       ELSE /\ seq.instructors < MaxId
            /\ instructors' = instructors \cup
                   {[instructor_id |-> seq.instructors + 1, name |-> name,
                     age |-> age, email |-> email]}
            /\ seq' = [seq EXCEPT !.instructors = @ + 1]
            /\ dialogs' = <<show_info("Success", "Instructor added successfully.")>>
            /\ UNCHANGED <<students, courses, student_courses>>

\* update_student with the WHERE clause left out
update_student_NoWhere(student_id, name, age, email) ==
    /\ lastCall' = "update_student"
    /\ raised' = "none"
    /\ students' = {[r EXCEPT !.name = name, !.age = age, !.email = email] :
                       r \in students}
    /\ dialogs' = <<>>
    /\ UNCHANGED <<instructors, courses, student_courses, seq>>

update_student(student_id, name, age, email) ==
    /\ lastCall' = "update_student"
    /\ raised' = "none"
    /\ students' = {IF r.student_id = student_id
                    THEN [r EXCEPT !.name = name, !.age = age, !.email = email]
                    ELSE r : r \in students}
    /\ dialogs' = <<>>
    /\ UNCHANGED <<instructors, courses, student_courses, seq>>

\* update_instructor written as INSERT OR REPLACE
update_instructor_Upsert(instructor_id, name, age, email) ==
    /\ lastCall' = "update_instructor"
    /\ raised' = "none"
    /\ instructors' = {r \in instructors : r.instructor_id # instructor_id} \cup
           {[instructor_id |-> instructor_id, name |-> name,
             age |-> age, email |-> email]}
    /\ dialogs' = <<>>
    /\ UNCHANGED <<students, courses, student_courses, seq>>

update_instructor(instructor_id, name, age, email) ==
    /\ lastCall' = "update_instructor"
    /\ raised' = "none"
    /\ instructors' = {IF r.instructor_id = instructor_id
                       THEN [r EXCEPT !.name = name, !.age = age, !.email = email]
                       ELSE r : r \in instructors}
    /\ dialogs' = <<>>
    /\ UNCHANGED <<students, courses, student_courses, seq>>

\* delete_student as it would act under ON DELETE CASCADE
delete_student_Cascade(student_id) ==
    /\ lastCall' = "delete_student"
    /\ raised' = "none"
    /\ students' = {r \in students : r.student_id # student_id}
    /\ student_courses' =
           [p \in {q \in BagToSet(student_courses) : q.student_id # Val(student_id)}
               |-> student_courses[p]]
    /\ dialogs' = <<>>
    /\ UNCHANGED <<instructors, courses, seq>>

delete_student(student_id) ==
    /\ lastCall' = "delete_student"
    /\ raised' = "none"
    /\ students' = {r \in students : r.student_id # student_id}
    /\ dialogs' = <<>>
    /\ UNCHANGED <<instructors, courses, student_courses, seq>>

delete_instructor(instructor_id) ==
    /\ lastCall' = "delete_instructor"
    /\ raised' = "none"
    /\ instructors' = {r \in instructors : r.instructor_id # instructor_id}
    /\ dialogs' = <<>>
    /\ UNCHANGED <<students, courses, student_courses, seq>>

-----------------------------------------------------------------------------
(* Courses *)

\* select_instructor with the WHERE clause lost: any instructor row is found
select_instructor_NoWhere(instructor_id) ==
    instructors

\* SELECT * FROM instructors WHERE instructor_id = ?
select_instructor(instructor_id) ==
    {r \in instructors : Val(r.instructor_id) = instructor_id}

\* select_course_by_name with the comparison inverted (<> written for =)
select_course_by_name_Missed(course_name) ==
    {r \in courses : r.course_name # course_name}

\* SELECT * FROM courses WHERE course_name = ?
select_course_by_name(course_name) ==
    {r \in courses : r.course_name = course_name}

\* add_course with the two lookups in the other order
add_course_NameFirst(course_name, instructor_id) ==
    /\ lastCall' = "add_course"
    /\ raised' = "none"
    /\ IF select_course_by_name(course_name) # {}
       THEN /\ dialogs' = <<show_error("Error",
                   "Course with name '" \o course_name \o "' already exists.")>>
            /\ UNCHANGED tables
       ELSE IF select_instructor(instructor_id) = {}
       THEN /\ dialogs' = <<show_error("Error",
                   "Instructor ID " \o Str(instructor_id) \o " does not exist.")>>
            /\ UNCHANGED tables
       ELSE /\ seq.courses < MaxId
            /\ courses' = courses \cup
                   {[course_id |-> seq.courses + 1, course_name |-> course_name,
                     instructor_id |-> instructor_id]}
            /\ seq' = [seq EXCEPT !.courses = @ + 1]
            /\ dialogs' = <<show_info("Success", "Course added successfully.")>>
            /\ UNCHANGED <<students, instructors, student_courses>>

add_course(course_name, instructor_id) ==
    /\ lastCall' = "add_course"
    /\ raised' = "none"
    /\ IF select_instructor(instructor_id) = {}
       THEN /\ dialogs' = <<show_error("Error",
                   "Instructor ID " \o Str(instructor_id) \o " does not exist.")>>
            /\ UNCHANGED tables
       ELSE IF select_course_by_name(course_name) # {}
       THEN /\ dialogs' = <<show_error("Error",
                   "Course with name '" \o course_name \o "' already exists.")>>
            /\ UNCHANGED tables
       ELSE /\ seq.courses < MaxId
            /\ courses' = courses \cup
                   {[course_id |-> seq.courses + 1, course_name |-> course_name,
                     instructor_id |-> instructor_id]}
            /\ seq' = [seq EXCEPT !.courses = @ + 1]
            /\ dialogs' = <<show_info("Success", "Course added successfully.")>>
            /\ UNCHANGED <<students, instructors, student_courses>>

update_course(course_id, course_name, instructor_id) ==
    /\ lastCall' = "update_course"
    /\ raised' = "none"
    /\ courses' = {IF r.course_id = course_id
                   THEN [r EXCEPT !.course_name = course_name,
                                  !.instructor_id = instructor_id]
                   ELSE r : r \in courses}
    /\ dialogs' = <<>>
    /\ UNCHANGED <<students, instructors, student_courses, seq>>

\* update_course_instructor with the WHERE clause left out
update_course_instructor_NoWhere(course_id, instructor_id) ==
    /\ lastCall' = "update_course_instructor"
    /\ raised' = "none"
    /\ courses' = {[r EXCEPT !.instructor_id = instructor_id] : r \in courses}
    /\ dialogs' = <<>>
    /\ UNCHANGED <<students, instructors, student_courses, seq>>

\* course_id and instructor_id are bound as given: None binds to NULL
update_course_instructor(course_id, instructor_id) ==
    /\ lastCall' = "update_course_instructor"
    /\ raised' = "none"
    /\ courses' = {IF Val(r.course_id) = course_id
                   THEN [r EXCEPT !.instructor_id = instructor_id]
                   ELSE r : r \in courses}
    /\ dialogs' = <<>>
    /\ UNCHANGED <<students, instructors, student_courses, seq>>

\* delete_course matching the wrong column (instructor_id for course_id)
delete_course_WrongColumn(course_id) ==
    /\ lastCall' = "delete_course"
    /\ raised' = "none"
    /\ courses' = {r \in courses : r.instructor_id # Val(course_id)}
    /\ dialogs' = <<>>
    /\ UNCHANGED <<students, instructors, student_courses, seq>>

delete_course(course_id) ==
    /\ lastCall' = "delete_course"
    /\ raised' = "none"
    /\ courses' = {r \in courses : r.course_id # course_id}
    /\ dialogs' = <<>>
    /\ UNCHANGED <<students, instructors, student_courses, seq>>

-----------------------------------------------------------------------------
(* Enrollment *)

\* PRIMARY KEY (student_id, course_id) of student_courses: the INSERT raises
\* IntegrityError when a row with the same two non-NULL values is present
primary_key_conflict(student_id, course_id) ==
    /\ student_id # NULL
    /\ course_id # NULL
    /\ BagIn([student_id |-> student_id, course_id |-> course_id], student_courses)

register_student_course(student_id, course_id) ==
    /\ lastCall' = "register_student_course"
    /\ raised' = "none"
    /\ IF primary_key_conflict(student_id, course_id)
       THEN /\ dialogs' = <<show_error("Error",
                   "Registration failed. This student is already registered for this course.")>>
            /\ UNCHANGED tables
       ELSE /\ BagCardinality(student_courses) < MaxEnroll
            /\ student_courses' = student_courses (+)
                   SetToBag({[student_id |-> student_id, course_id |-> course_id]})
            /\ dialogs' = <<show_info("Success",
                   "Student registered for course successfully.")>>
            /\ UNCHANGED <<students, instructors, courses, seq>>

-----------------------------------------------------------------------------
(* Restart: the connection is closed and Database() is constructed again   *)
(* on the same file.  Every write method commits before it returns, so the *)
(* file holds the tables as the last call left them.                       *)

\* create_tables with DROP TABLE IF EXISTS before each CREATE TABLE
create_tables_Recreate ==
    /\ lastCall' = "__init__"
    /\ raised' = "none"
    /\ dialogs' = <<>>
    /\ students' = {}
    /\ instructors' = {}
    /\ courses' = {}
    /\ student_courses' = EmptyBag
    /\ seq' = [students |-> 0, instructors |-> 0, courses |-> 0]

\* the four CREATE TABLE IF NOT EXISTS find their tables and do nothing
create_tables ==
    /\ lastCall' = "__init__"
    /\ raised' = "none"
    /\ dialogs' = <<>>
    /\ UNCHANGED tables

-----------------------------------------------------------------------------
(* Reads: SELECT * returns the rows of a table as tuples, in rowid order *)

\* the members of a finite set of integers, ascending
RECURSIVE Ascending(_)
Ascending(S) ==
    IF S = {} THEN <<>>
    ELSE LET least == CHOOSE x \in S : \A y \in S : x <= y
         IN  <<least>> \o Ascending(S \ {least})

get_students ==
    LET ids == Ascending({r.student_id : r \in students})
        row(i) == CHOOSE r \in students : r.student_id = i
    IN  [k \in 1..Cardinality(students) |->
            <<ids[k], row(ids[k]).name, row(ids[k]).age, row(ids[k]).email>>]

get_instructors ==
    LET ids == Ascending({r.instructor_id : r \in instructors})
        row(i) == CHOOSE r \in instructors : r.instructor_id = i
    IN  [k \in 1..Cardinality(instructors) |->
            <<ids[k], row(ids[k]).name, row(ids[k]).age, row(ids[k]).email>>]

get_courses ==
    LET ids == Ascending({r.course_id : r \in courses})
        row(i) == CHOOSE r \in courses : r.course_id = i
    IN  [k \in 1..Cardinality(courses) |->
            <<ids[k], row(ids[k]).course_name, row(ids[k]).instructor_id>>]

-----------------------------------------------------------------------------
(* class Database of src/tkinter.py.  Each method is a function of the     *)
(* database file it is opened on: db holds the tables after the call,      *)
(* dialogs the message boxes it showed.                                    *)

db == [students |-> students, instructors |-> instructors, courses |-> courses,
       student_courses |-> student_courses, seq |-> seq]

showerror(title, message) == [icon |-> "error", title |-> title, text |-> message]
showinfo(title, message) == [icon |-> "info", title |-> title, text |-> message]

tk_validate_email(email) ==
    \/ MatchesWhole(email)
    \/ /\ Len(email) > 0
       /\ email[Len(email)] = "\n"
       /\ MatchesWhole(SubSeq(email, 1, Len(email) - 1))

tk_add_student(name, age, email) ==
    IF ~tk_validate_email(email)
    THEN [db |-> db, dialogs |-> <<showerror("Error", "Invalid email format.")>>]
    ELSE IF age <= 0
    THEN [db |-> db, dialogs |-> <<showerror("Error", "Age must be positive.")>>]
    ELSE [db |-> [db EXCEPT
                    !.students = @ \cup {[student_id |-> db.seq.students + 1,
                                          name |-> name, age |-> age, email |-> email]},
                    !.seq.students = @ + 1],
          dialogs |-> <<showinfo("Success", "Student added successfully.")>>]

tk_add_instructor(name, age, email) ==
    IF ~tk_validate_email(email)
    THEN [db |-> db, dialogs |-> <<showerror("Error", "Invalid email format.")>>]
    ELSE IF age <= 0
    THEN [db |-> db, dialogs |-> <<showerror("Error", "Age must be positive.")>>]
    ELSE [db |-> [db EXCEPT
                    !.instructors = @ \cup {[instructor_id |-> db.seq.instructors + 1,
                                             name |-> name, age |-> age, email |-> email]},
                    !.seq.instructors = @ + 1],
          dialogs |-> <<showinfo("Success", "Instructor added successfully.")>>]

\* add_course without the lookup of the course name
tk_add_course_NoNameCheck(course_name, instructor_id) ==
    IF \A r \in instructors : Val(r.instructor_id) # instructor_id
    THEN [db |-> db,
          dialogs |-> <<showerror("Error",
              "Instructor ID " \o Str(instructor_id) \o " does not exist.")>>]
    ELSE [db |-> [db EXCEPT
                    !.courses = @ \cup {[course_id |-> db.seq.courses + 1,
                                         course_name |-> course_name,
                                         instructor_id |-> instructor_id]},
                    !.seq.courses = @ + 1],
          dialogs |-> <<showinfo("Success", "Course added successfully.")>>]

tk_add_course(course_name, instructor_id) ==
    IF \A r \in instructors : Val(r.instructor_id) # instructor_id
    THEN [db |-> db,
          dialogs |-> <<showerror("Error",
              "Instructor ID " \o Str(instructor_id) \o " does not exist.")>>]
    ELSE IF \E r \in courses : r.course_name = course_name
    THEN [db |-> db,
          dialogs |-> <<showerror("Error",
              "Course with name '" \o course_name \o "' already exists.")>>]
    ELSE [db |-> [db EXCEPT
                    !.courses = @ \cup {[course_id |-> db.seq.courses + 1,
                                         course_name |-> course_name,
                                         instructor_id |-> instructor_id]},
                    !.seq.courses = @ + 1],
          dialogs |-> <<showinfo("Success", "Course added successfully.")>>]

\* no message box on success
tk_register_student_course(student_id, course_id) ==
    IF /\ student_id # NULL
       /\ course_id # NULL
       /\ BagIn([student_id |-> student_id, course_id |-> course_id], student_courses)
    THEN [db |-> db,
          dialogs |-> <<showerror("Error",
              "Registration failed. This student is already registered for this course.")>>]
    ELSE [db |-> [db EXCEPT !.student_courses = @ (+)
                    SetToBag({[student_id |-> student_id, course_id |-> course_id]})],
          dialogs |-> <<>>]

tk_update_course_instructor(course_id, instructor_id) ==
    [db |-> [db EXCEPT !.courses = {IF Val(r.course_id) = course_id
                                    THEN [r EXCEPT !.instructor_id = instructor_id]
                                    ELSE r : r \in courses}],
     dialogs |-> <<>>]

tk_update_student(student_id, name, age, email) ==
    [db |-> [db EXCEPT !.students =
                {IF r.student_id = student_id
                 THEN [r EXCEPT !.name = name, !.age = age, !.email = email]
                 ELSE r : r \in students}],
     dialogs |-> <<>>]

tk_update_instructor(instructor_id, name, age, email) ==
    [db |-> [db EXCEPT !.instructors =
                {IF r.instructor_id = instructor_id
                 THEN [r EXCEPT !.name = name, !.age = age, !.email = email]
                 ELSE r : r \in instructors}],
     dialogs |-> <<>>]

tk_update_course(course_id, course_name, instructor_id) ==
    [db |-> [db EXCEPT !.courses =
                {IF r.course_id = course_id
                 THEN [r EXCEPT !.course_name = course_name,
                                !.instructor_id = instructor_id]
                 ELSE r : r \in courses}],
     dialogs |-> <<>>]

tk_delete_student(student_id) ==
    [db |-> [db EXCEPT !.students = {r \in students : r.student_id # student_id}],
     dialogs |-> <<>>]

tk_delete_instructor(instructor_id) ==
    [db |-> [db EXCEPT !.instructors =
                {r \in instructors : r.instructor_id # instructor_id}],
     dialogs |-> <<>>]

tk_delete_course(course_id) ==
    [db |-> [db EXCEPT !.courses = {r \in courses : r.course_id # course_id}],
     dialogs |-> <<>>]

-----------------------------------------------------------------------------
(* Front-end handlers.  The text of an entry widget is a sequence of       *)
(* one-character strings; an exception a handler does not catch reaches    *)
(* the event loop, which goes on with the next event.                      *)

IsDigit(c) == \E k \in 1..Len(DecimalDigits) : DecimalDigits[k] = c
DigitValue(c) == (CHOOSE k \in 1..Len(DecimalDigits) : DecimalDigits[k] = c) - 1

RECURSIVE NatOf(_)
NatOf(t) == IF t = <<>> THEN 0
            ELSE 10 * NatOf(SubSeq(t, 1, Len(t) - 1)) + DigitValue(t[Len(t)])

RECURSIVE strip(_)
strip(t) == IF t # <<>> /\ t[1] = " " THEN strip(Tail(t))
            ELSE IF t # <<>> /\ t[Len(t)] = " " THEN strip(SubSeq(t, 1, Len(t) - 1))
            ELSE t

\* int(text) of Python for ASCII text: surrounding blanks are dropped, one sign
\* is allowed, at least one digit is required; anything else is a ValueError
int(text) ==
    LET t == strip(text)
        signed == t # <<>> /\ t[1] \in {"+", "-"}
        d == IF signed THEN Tail(t) ELSE t
    IN  IF d # <<>> /\ \A k \in 1..Len(d) : IsDigit(d[k])
        THEN [ok |-> TRUE,
              value |-> IF signed /\ t[1] = "-" THEN 0 - NatOf(d) ELSE NatOf(d)]
        ELSE [ok |-> FALSE, value |-> 0]

\* the exception leaves the handler before any Database method is called
uncaught(exception) ==
    /\ raised' = exception
    /\ dialogs' = <<>>
    /\ UNCHANGED <<tables, lastCall, widgets>>

\* str() of an integer, and of a column value that may be None, as the
\* characters of a widget item's text
RECURSIVE digits(_)
digits(n) == IF n < 10 THEN <<DecimalDigits[n + 1]>>
             ELSE digits(n \div 10) \o <<DecimalDigits[(n % 10) + 1]>>
str(i) == IF i < 0 THEN <<"-">> \o digits(0 - i) ELSE digits(i)
str_or_None(v) == IF v = NULL THEN <<"N", "o", "n", "e">> ELSE str(v[1])

\* load_students, load_instructors, load_courses of src/pyqt.py: setRowCount
\* to the number of rows fetched, then every cell of every row is set
load_students_Append(rows) ==
    pyqt.student_table \o
        [k \in 1..Len(rows) |->
            <<str(rows[k][1]), rows[k][2], str(rows[k][3]), rows[k][4]>>]

load_students(rows) ==
    [k \in 1..Len(rows) |->
        <<str(rows[k][1]), rows[k][2], str(rows[k][3]), rows[k][4]>>]

load_instructors(rows) ==
    [k \in 1..Len(rows) |->
        <<str(rows[k][1]), rows[k][2], str(rows[k][3]), rows[k][4]>>]

load_courses(rows) ==
    [k \in 1..Len(rows) |->
        <<str(rows[k][1]), rows[k][2], str_or_None(rows[k][3])>>]

\* load_student_course_dropdowns and load_assign_dropdowns of src/pyqt.py: one
\* item per row; an item is represented by its data, the row's id
item_data(rows) == [k \in 1..Len(rows) |-> rows[k][1]]

\* QComboBox.currentData(): the data of the chosen item, None in an empty box
currentData(items, index) == IF items = <<>> THEN NULL ELSE Val(items[index])

\* SchoolManagementGUI.__init__ of src/pyqt.py: Database() is constructed, the
\* tabs are created, and each create_*_tab loads its table and its dropdowns
initUI ==
    /\ create_tables
    /\ pyqt' = [student_table |-> load_students(get_students),
                instructor_table |-> load_instructors(get_instructors),
                course_table |-> load_courses(get_courses),
                student_dropdown |-> item_data(get_students),
                course_dropdown |-> item_data(get_courses),
                assign_course_dropdown |-> item_data(get_courses),
                assign_instructor_dropdown |-> item_data(get_instructors)]
    /\ tkinter' = no_tkinter
    /\ window' = "pyqt"

\* SchoolManagementGUI.add_student, add_instructor, add_course of src/pyqt.py
gui_add_student(name, age_text, email) ==
    /\ window = "pyqt"
    /\ IF ~int(age_text).ok
       THEN uncaught("ValueError")
       ELSE /\ add_student(name, int(age_text).value, email)
            /\ \E rows \in {get_students'} :
                   pyqt' = [pyqt EXCEPT !.student_table = load_students(rows)]
            /\ UNCHANGED <<tkinter, window>>

gui_add_instructor(name, age_text, email) ==
    /\ window = "pyqt"
    /\ IF ~int(age_text).ok
       THEN uncaught("ValueError")
       ELSE /\ add_instructor(name, int(age_text).value, email)
            /\ \E rows \in {get_instructors'} :
                   pyqt' = [pyqt EXCEPT !.instructor_table = load_instructors(rows)]
            /\ UNCHANGED <<tkinter, window>>

gui_add_course(course_name, instructor_text) ==
    /\ window = "pyqt"
    /\ IF ~int(instructor_text).ok
       THEN uncaught("ValueError")
       ELSE /\ add_course(course_name, Val(int(instructor_text).value))
            /\ \E rows \in {get_courses'} :
                   pyqt' = [pyqt EXCEPT !.course_table = load_courses(rows)]
            /\ UNCHANGED <<tkinter, window>>

\* a handler's early return after Database.show_error
select_first(message) ==
    /\ lastCall' = "show_error"
    /\ raised' = "none"
    /\ dialogs' = <<show_error("Error", message)>>
    /\ UNCHANGED <<tables, widgets>>

\* a handler that returns without calling the Database
nothing_done ==
    /\ raised' = "none"
    /\ dialogs' = <<>>
    /\ UNCHANGED <<tables, lastCall, widgets>>

\* SchoolManagementGUI.delete_student, delete_instructor, delete_course of
\* src/pyqt.py; selected_row is currentRow(), -1 when no row is current
gui_delete_student(selected_row) ==
    /\ window = "pyqt"
    /\ IF selected_row < 0
       THEN select_first("Please select a student to delete.")
       ELSE /\ delete_student(int(pyqt.student_table[selected_row + 1][1]).value)
            /\ \E rows \in {get_students'} :
                   pyqt' = [pyqt EXCEPT !.student_table = load_students(rows)]
            /\ UNCHANGED <<tkinter, window>>

gui_delete_instructor(selected_row) ==
    /\ window = "pyqt"
    /\ IF selected_row < 0
       THEN select_first("Please select an instructor to delete.")
       ELSE /\ delete_instructor(
                   int(pyqt.instructor_table[selected_row + 1][1]).value)
            /\ \E rows \in {get_instructors'} :
                   pyqt' = [pyqt EXCEPT !.instructor_table = load_instructors(rows)]
            /\ UNCHANGED <<tkinter, window>>

gui_delete_course(selected_row) ==
    /\ window = "pyqt"
    /\ IF selected_row < 0
       THEN select_first("Please select a course to delete.")
       ELSE /\ delete_course(int(pyqt.course_table[selected_row + 1][1]).value)
            /\ \E rows \in {get_courses'} :
                   pyqt' = [pyqt EXCEPT !.course_table = load_courses(rows)]
            /\ UNCHANGED <<tkinter, window>>

\* SchoolManagementGUI.edit_student, edit_instructor, edit_course of
\* src/pyqt.py; name, age and email are what the three input dialogs return
gui_edit_student(selected_row, name, age, email) ==
    /\ window = "pyqt"
    /\ IF selected_row < 0
       THEN select_first("Please select a student to edit.")
       ELSE IF ~int(pyqt.student_table[selected_row + 1][3]).ok
       THEN uncaught("ValueError")
       ELSE IF name # "" /\ email # <<>>
       THEN /\ update_student(int(pyqt.student_table[selected_row + 1][1]).value,
                              name, age, email)
            /\ \E rows \in {get_students'} :
                   pyqt' = [pyqt EXCEPT !.student_table = load_students(rows)]
            /\ UNCHANGED <<tkinter, window>>
       ELSE nothing_done

gui_edit_instructor(selected_row, name, age, email) ==
    /\ window = "pyqt"
    /\ IF selected_row < 0
       THEN select_first("Please select an instructor to edit.")
       ELSE IF ~int(pyqt.instructor_table[selected_row + 1][3]).ok
       THEN uncaught("ValueError")
       ELSE IF name # "" /\ email # <<>>
       THEN /\ update_instructor(
                   int(pyqt.instructor_table[selected_row + 1][1]).value,
                   name, age, email)
            /\ \E rows \in {get_instructors'} :
                   pyqt' = [pyqt EXCEPT !.instructor_table = load_instructors(rows)]
            /\ UNCHANGED <<tkinter, window>>
       ELSE nothing_done

gui_edit_course(selected_row, name, instructor_id) ==
    /\ window = "pyqt"
    /\ IF selected_row < 0
       THEN select_first("Please select a course to edit.")
       ELSE IF ~int(pyqt.course_table[selected_row + 1][3]).ok
       THEN uncaught("ValueError")
       ELSE IF name # ""
       THEN /\ update_course(int(pyqt.course_table[selected_row + 1][1]).value,
                             name, Val(instructor_id))
            /\ \E rows \in {get_courses'} :
                   pyqt' = [pyqt EXCEPT !.course_table = load_courses(rows)]
            /\ UNCHANGED <<tkinter, window>>
       ELSE nothing_done

\* SchoolManagementGUI.register_student and assign_instructor of src/pyqt.py;
\* the indexes are the items chosen in the two dropdowns of the tab
gui_register_student(student_index, course_index) ==
    /\ window = "pyqt"
    /\ /\ register_student_course(
              currentData(pyqt.student_dropdown, student_index),
              currentData(pyqt.course_dropdown, course_index))
       /\ UNCHANGED widgets

gui_assign_instructor(course_index, instructor_index) ==
    /\ window = "pyqt"
    /\ /\ update_course_instructor(
              currentData(pyqt.assign_course_dropdown, course_index),
              currentData(pyqt.assign_instructor_dropdown, instructor_index))
       /\ UNCHANGED widgets

\* the tables and message boxes a method of the tkinter Database leaves
tk_call(method, r) ==
    \E result \in {r} :
        /\ result.db.seq.students <= MaxId
        /\ result.db.seq.instructors <= MaxId
        /\ result.db.seq.courses <= MaxId
        /\ BagCardinality(result.db.student_courses) <= MaxEnroll
        /\ students' = result.db.students
        /\ instructors' = result.db.instructors
        /\ courses' = result.db.courses
        /\ student_courses' = result.db.student_courses
        /\ seq' = result.db.seq
        /\ dialogs' = result.dialogs
        /\ lastCall' = method
        /\ raised' = "none"

\* load_students, load_instructors, load_courses of src/tkinter.py: every row
\* fetched is inserted at the end of the tree; the tree is not emptied first
tk_load(tree, rows) == tree \o rows

\* populate_student_dropdown, populate_instructor_dropdown,
\* populate_course_dropdown of src/tkinter.py: the names, in row order
populate(rows) == [k \in 1..Len(rows) |-> rows[k][2]]

\* SchoolManagementGUI.__init__ of src/tkinter.py: Database() is constructed,
\* create_input_frames fills the instructor dropdown, create_treeview_frames
\* loads the three trees, and the student and course dropdowns are populated;
\* self.course_dropdown names the box of the Assign frame by then
tk___init__ ==
    /\ create_tables
    /\ tkinter' = [student_tree |-> tk_load(<<>>, get_students),
                   instructor_tree |-> tk_load(<<>>, get_instructors),
                   course_tree |-> tk_load(<<>>, get_courses),
                   student_dropdown |-> populate(get_students),
                   instructor_dropdown |-> populate(get_instructors),
                   course_dropdown |-> populate(get_courses)]
    /\ pyqt' = no_pyqt
    /\ window' = "tkinter"

\* SchoolManagementGUI.add_student, add_instructor, add_course of src/tkinter.py
tk_gui_add_student(name, age_text, email) ==
    /\ window = "tkinter"
    /\ IF ~int(age_text).ok
       THEN uncaught("ValueError")
       ELSE /\ Len(tkinter.student_tree) < MaxTree
            /\ tk_call("add_student", tk_add_student(name, int(age_text).value, email))
            /\ \E rows \in {get_students'} :
                   tkinter' = [tkinter EXCEPT
                       !.student_tree = tk_load(@, rows),
                       !.student_dropdown = populate(rows)]
            /\ UNCHANGED <<pyqt, window>>

tk_gui_add_instructor(name, age_text, email) ==
    /\ window = "tkinter"
    /\ IF ~int(age_text).ok
       THEN uncaught("ValueError")
       ELSE /\ Len(tkinter.instructor_tree) < MaxTree
            /\ tk_call("add_instructor",
                       tk_add_instructor(name, int(age_text).value, email))
            /\ \E rows \in {get_instructors'} :
                   tkinter' = [tkinter EXCEPT
                       !.instructor_tree = tk_load(@, rows),
                       !.instructor_dropdown = populate(rows)]
            /\ UNCHANGED <<pyqt, window>>

tk_gui_add_course(course_name, instructor_text) ==
    /\ window = "tkinter"
    /\ IF ~int(instructor_text).ok
       THEN uncaught("ValueError")
       ELSE /\ Len(tkinter.course_tree) < MaxTree
            /\ tk_call("add_course",
                       tk_add_course(course_name, Val(int(instructor_text).value)))
            /\ \E rows \in {get_courses'} :
                   tkinter' = [tkinter EXCEPT
                       !.course_tree = tk_load(@, rows),
                       !.course_dropdown = populate(rows)]
            /\ UNCHANGED <<pyqt, window>>

\* the items of a tree without the one at position item
without_item(tree, item) ==
    [k \in 1..(Len(tree) - 1) |-> IF k < item THEN tree[k] ELSE tree[k + 1]]

showwarning(title, message) == [icon |-> "warning", title |-> title, text |-> message]

\* a delete handler's early return when selection() is empty
tk_select_first(message) ==
    /\ raised' = "none"
    /\ dialogs' = <<showwarning("Warning", message)>>
    /\ UNCHANGED <<tables, lastCall, widgets>>

\* SchoolManagementGUI.delete_instructor and delete_course of src/tkinter.py;
\* selected_item is the position of the selected tree item, 0 for none.  The
\* row with the id in the item's first column is deleted, then the item; no
\* dropdown is populated again.
tk_gui_delete_instructor(selected_item) ==
    /\ window = "tkinter"
    /\ IF selected_item = 0
       THEN tk_select_first("Please select an instructor to delete.")
       ELSE /\ tk_call("delete_instructor",
                    [tk_delete_instructor(tkinter.instructor_tree[selected_item][1])
                       EXCEPT !.dialogs =
                           <<showinfo("Success", "Instructor deleted successfully.")>>])
            /\ tkinter' = [tkinter EXCEPT
                   !.instructor_tree = without_item(@, selected_item)]
            /\ UNCHANGED <<pyqt, window>>

tk_gui_delete_course(selected_item) ==
    /\ window = "tkinter"
    /\ IF selected_item = 0
       THEN tk_select_first("Please select a course to delete.")
       ELSE /\ tk_call("delete_course",
                    [tk_delete_course(tkinter.course_tree[selected_item][1])
                       EXCEPT !.dialogs =
                           <<showinfo("Success", "Course deleted successfully.")>>])
            /\ tkinter' = [tkinter EXCEPT
                   !.course_tree = without_item(@, selected_item)]
            /\ UNCHANGED <<pyqt, window>>

\* Database.get_instructor_id_by_name and get_course_id_by_name of
\* src/tkinter.py: fetchone() on a SELECT over the whole table, which SQLite
\* scans in rowid order, so the first match is the one with the least id
get_instructor_id_by_name(instructor_name) ==
    LET ids == {r.instructor_id : r \in {x \in instructors : x.name = instructor_name}}
    IN  IF ids = {} THEN NULL ELSE Val(Ascending(ids)[1])

get_course_id_by_name(course_name) ==
    LET ids == {r.course_id : r \in {x \in courses : x.course_name = course_name}}
    IN  IF ids = {} THEN NULL ELSE Val(Ascending(ids)[1])

\* an early return of assign_instructor after messagebox.showerror
tk_assign_error(message) ==
    /\ raised' = "none"
    /\ dialogs' = <<showerror("Error", message)>>
    /\ UNCHANGED <<tables, lastCall, widgets>>

\* SchoolManagementGUI.assign_instructor of src/tkinter.py; the arguments are
\* the positions of the entries chosen in the two dropdowns of the Assign
\* frame, 0 for a box left empty.  After the update and the success box,
\* update_treeview empties the course tree, load_courses() fills it and
\* returns None, and iterating over None raises TypeError.
tk_assign_instructor(instructor_index, course_index) ==
    /\ window = "tkinter"
    /\ LET instructor_name == IF instructor_index = 0 THEN ""
                              ELSE tkinter.instructor_dropdown[instructor_index]
           course_name == IF course_index = 0 THEN ""
                          ELSE tkinter.course_dropdown[course_index]
           instructor_id == get_instructor_id_by_name(instructor_name)
           course_id == get_course_id_by_name(course_name)
       IN  IF instructor_name = ""
           THEN tk_assign_error("Please select an instructor.")
           ELSE IF course_name = ""
           THEN tk_assign_error("Please select a course.")
           ELSE IF instructor_id = NULL
           THEN tk_assign_error(
                    "Invalid instructor selection. Please check the database.")
           ELSE IF course_id = NULL
           THEN tk_assign_error(
                    "Invalid course selection. Please check the database.")
           ELSE /\ lastCall' = "update_course_instructor"
                /\ courses' = tk_update_course_instructor(course_id, instructor_id).db.courses
                /\ dialogs' = <<showinfo("Success",
                       "Instructor " \o instructor_name \o " assigned to "
                           \o course_name \o "!")>>
                /\ \E rows \in {get_courses'} :
                       tkinter' = [tkinter EXCEPT !.course_tree = tk_load(<<>>, rows)]
                /\ raised' = "TypeError"
                /\ UNCHANGED <<students, instructors, student_courses, seq, pyqt, window>>

\* The Register button of src/tkinter.py is bound to self.register_course.  The
\* class body defines register_course twice; the later definition, which takes
\* no parameter and only returns, is the one the attribute names, so calling it
\* as a bound method raises TypeError whatever the two dropdowns show.
tk_register_course(student_text, course_text) ==
    /\ window = "tkinter"
    /\ uncaught("TypeError")

-----------------------------------------------------------------------------
(* Arguments of the calls *)

Ids == 1..MaxId
\* values a caller can bind to a nullable id: None, or an integer
SqlIds == {NULL} \cup {Val(i) : i \in Ids}
Names == {"Ann"}
CourseNames == {"Math", "Art"}
Ages == {0, 1}
\* ages offered to add_student and add_instructor: a negative one too
AddAges == Ages \cup {-1}
GoodEmail == <<"a", "@", "b", ".", "c", "o">>
BadEmail == <<"a", "@", "b">>
Emails == {GoodEmail, BadEmail}

-----------------------------------------------------------------------------
(* The whole Database API.  To keep the four-table product small, people   *)
(* are written with one fixed valid record and courses carry one name.     *)

AddStudent ==
    /\ \E n \in Names : add_student(n, 1, GoodEmail)
    /\ UNCHANGED widgets
AddInstructor ==
    /\ \E n \in Names : add_instructor(n, 1, GoodEmail)
    /\ UNCHANGED widgets
UpdateStudent ==
    /\ \E i \in Ids, n \in Names : update_student(i, n, 1, GoodEmail)
    /\ UNCHANGED widgets
UpdateInstructor ==
    /\ \E i \in Ids, n \in Names : update_instructor(i, n, 1, GoodEmail)
    /\ UNCHANGED widgets
DeleteStudent ==
    /\ \E i \in Ids : delete_student(i)
    /\ UNCHANGED widgets
DeleteInstructor ==
    /\ \E i \in Ids : delete_instructor(i)
    /\ UNCHANGED widgets
AddCourse ==
    /\ \E i \in SqlIds : add_course("Math", i)
    /\ UNCHANGED widgets
UpdateCourse ==
    /\ \E k \in Ids, i \in Ids : update_course(k, "Math", Val(i))
    /\ UNCHANGED widgets
UpdateCourseInstructor ==
    /\ \E k \in SqlIds, i \in SqlIds : update_course_instructor(k, i)
    /\ UNCHANGED widgets
DeleteCourse ==
    /\ \E k \in Ids : delete_course(k)
    /\ UNCHANGED widgets
RegisterStudentCourse ==
    /\ \E s \in SqlIds, k \in SqlIds : register_student_course(s, k)
    /\ UNCHANGED widgets

Next ==
    \/ AddStudent \/ AddInstructor \/ UpdateStudent \/ UpdateInstructor
    \/ DeleteStudent \/ DeleteInstructor
    \/ AddCourse \/ UpdateCourse \/ UpdateCourseInstructor \/ DeleteCourse
    \/ RegisterStudentCourse

Spec == Init /\ [][Next]_vars

(* Students and instructors alone, with invalid emails and ages among the inputs *)

AddStudentAny ==
    /\ \E n \in Names, a \in AddAges, e \in Emails : add_student(n, a, e)
    /\ UNCHANGED widgets
AddInstructorAny ==
    /\ \E n \in Names, a \in AddAges, e \in Emails : add_instructor(n, a, e)
    /\ UNCHANGED widgets
UpdateStudentAny ==
    /\ \E i \in Ids, n \in Names, a \in Ages, e \in Emails : update_student(i, n, a, e)
    /\ UNCHANGED widgets
UpdateInstructorAny ==
    /\ \E i \in Ids, n \in Names, a \in Ages, e \in Emails : update_instructor(i, n, a, e)
    /\ UNCHANGED widgets

NextPeople ==
    \/ AddStudentAny \/ AddInstructorAny \/ UpdateStudentAny \/ UpdateInstructorAny
    \/ DeleteStudent \/ DeleteInstructor

SpecPeople == Init /\ [][NextPeople]_vars

(* Instructors and courses alone, with two course names *)

AddCourseAny ==
    /\ \E c \in CourseNames, i \in SqlIds : add_course(c, i)
    /\ UNCHANGED widgets
UpdateCourseAny ==
    /\ \E k \in Ids, c \in CourseNames, i \in Ids : update_course(k, c, Val(i))
    /\ UNCHANGED widgets

NextCourses ==
    \/ AddInstructor \/ DeleteInstructor
    \/ AddCourseAny \/ UpdateCourseAny \/ UpdateCourseInstructor \/ DeleteCourse

SpecCourses == Init /\ [][NextCourses]_vars

(* The three entity tables without enrollment: students carry two names *)

CrudNames == {"Ann", "Bob"}
AddStudentNamed ==
    /\ \E n \in CrudNames : add_student(n, 1, GoodEmail)
    /\ UNCHANGED widgets
UpdateStudentNamed ==
    /\ \E i \in Ids, n \in CrudNames : update_student(i, n, 1, GoodEmail)
    /\ UNCHANGED widgets

NextCrud ==
    \/ AddStudentNamed \/ UpdateStudentNamed \/ DeleteStudent
    \/ AddInstructor \/ UpdateInstructor \/ DeleteInstructor
    \/ AddCourse \/ UpdateCourse \/ DeleteCourse

SpecCrud == Init /\ [][NextCrud]_vars

(* validate_email on strings assembled from well- and ill-formed parts *)

LocalParts == {<<>>, <<"a">>, <<"a", "%">>, <<"a", " ">>, <<"a", "@">>}
AtParts == {<<>>, <<"@">>}
DomainParts == {<<>>, <<"b">>, <<"-">>}
DotParts == {<<>>, <<".">>}
TldParts == {<<"c">>, <<"c", "o">>, <<"C", "o", "m">>, <<"c", "1">>}
EndParts == {<<>>, <<"\n">>, <<"\n", "\n">>}
EmailStrings ==
    {l \o a \o d \o p \o t \o n :
        l \in LocalParts, a \in AtParts, d \in DomainParts,
        p \in DotParts, t \in TldParts, n \in EndParts}

AddStudentEmail ==
    /\ \E e \in EmailStrings : add_student("Ann", 1, e)
    /\ UNCHANGED widgets

NextEmail == AddStudentEmail \/ DeleteStudent

SpecEmail == Init /\ [][NextEmail]_vars

(* Both front-ends on one database file *)

AgeTexts == {<<"1">>, <<" ", "1">>, <<"0">>, <<"-", "1">>, <<"x">>, <<>>}
IdTexts == {<<"1">>, <<"2">>, <<"x">>, <<>>}

GuiAddStudent ==
    \E n \in Names, t \in AgeTexts, e \in Emails : gui_add_student(n, t, e)
GuiAddInstructor ==
    \E n \in Names, t \in AgeTexts, e \in Emails : gui_add_instructor(n, t, e)
GuiAddCourse == \E t \in IdTexts : gui_add_course("Math", t)
TkAddStudent ==
    \E n \in Names, t \in AgeTexts, e \in Emails : tk_gui_add_student(n, t, e)
TkAddInstructor ==
    \E n \in Names, t \in AgeTexts, e \in Emails : tk_gui_add_instructor(n, t, e)
TkAddCourse == \E t \in IdTexts : tk_gui_add_course("Math", t)
TkRegisterCourse ==
    \E s \in students, c \in courses : tk_register_course(s.name, c.course_name)

NextGui ==
    \/ GuiAddStudent \/ GuiAddInstructor \/ GuiAddCourse \/ RegisterStudentCourse
    \/ TkAddStudent \/ TkAddInstructor \/ TkAddCourse \/ TkRegisterCourse

SpecGui == InitEither /\ [][NextGui]_vars

(* All write methods, and restarts *)

CreateTables == create_tables /\ UNCHANGED widgets

NextRestart == Next \/ CreateTables

SpecRestart == Init /\ [][NextRestart]_vars

(* The three entity tables and instructor assignment *)

NextEdit == NextCrud \/ UpdateCourseInstructor

SpecEdit == Init /\ [][NextEdit]_vars

(* The add handlers of both front-ends *)

NextAdd ==
    \/ GuiAddStudent \/ GuiAddInstructor \/ GuiAddCourse
    \/ TkAddStudent \/ TkAddInstructor \/ TkAddCourse

SpecAdd == InitEither /\ [][NextAdd]_vars

(* The PyQt window: tables, edit dialogs and the Assign tab; no enrollment. *)
(* The window can be closed and started again at any time.                 *)

Rows(table) == 0..(Len(table) - 1)
\* the items a user can choose in a dropdown; an empty box offers nothing to
\* choose, and its current index is -1
Choices(items) == IF items = <<>> THEN {-1} ELSE 1..Len(items)

QtStart == initUI
QtIdTexts == {<<"1">>, <<"x">>}
QtAddStudent == gui_add_student("Ann", <<"1">>, GoodEmail)
QtAddInstructor == gui_add_instructor("Ann", <<"1">>, GoodEmail)
QtAddCourse == \E t \in QtIdTexts : gui_add_course("Math", t)
QtDeleteStudent ==
    \E r \in {-1} \cup Rows(pyqt.student_table) : gui_delete_student(r)
QtDeleteInstructor ==
    \E r \in {-1} \cup Rows(pyqt.instructor_table) : gui_delete_instructor(r)
QtDeleteCourse ==
    \E r \in {-1} \cup Rows(pyqt.course_table) : gui_delete_course(r)
QtEditStudent ==
    \E r \in {-1} \cup Rows(pyqt.student_table), n \in {"Bob", ""} :
        gui_edit_student(r, n, 1, GoodEmail)
QtEditInstructor ==
    \E r \in {-1} \cup Rows(pyqt.instructor_table), n \in {"Ann", ""} :
        gui_edit_instructor(r, n, 1, GoodEmail)
QtEditCourse ==
    \E r \in {-1} \cup Rows(pyqt.course_table), n \in {"Math", ""}, i \in Ids :
        gui_edit_course(r, n, i)
QtAssign ==
    \E k \in Choices(pyqt.assign_course_dropdown),
       i \in Choices(pyqt.assign_instructor_dropdown) :
        gui_assign_instructor(k, i)
QtRegister ==
    \E s \in Choices(pyqt.student_dropdown), k \in Choices(pyqt.course_dropdown) :
        gui_register_student(s, k)

NextQtTables ==
    \/ QtStart
    \/ QtAddStudent \/ QtAddInstructor \/ QtAddCourse
    \/ QtDeleteStudent \/ QtDeleteInstructor \/ QtDeleteCourse
    \/ QtEditStudent \/ QtEditInstructor \/ QtEditCourse
    \/ QtAssign

SpecQtTables == Init /\ [][NextQtTables]_vars

(* The PyQt window: the Register and Assign tabs, with rows added and      *)
(* deleted after start-up                                                  *)

QtAddCourseMath == gui_add_course("Math", <<"1">>)

NextQtTabs ==
    \/ QtStart
    \/ QtAddStudent \/ QtAddInstructor \/ QtAddCourseMath
    \/ QtDeleteStudent \/ QtDeleteCourse
    \/ QtRegister \/ QtAssign

SpecQtTabs == Init /\ [][NextQtTabs]_vars

(* The tkinter window: add and delete handlers and the Assign frame *)

TkStart == tk___init__
TkAddInstructorNamed ==
    \E n \in CrudNames : tk_gui_add_instructor(n, <<"1">>, GoodEmail)
TkAddCourseMath ==
    \E t \in {<<"1">>, <<"2">>, <<"x">>} : tk_gui_add_course("Math", t)
TkDeleteInstructor ==
    \E k \in 0..Len(tkinter.instructor_tree) : tk_gui_delete_instructor(k)
TkDeleteCourse ==
    \E k \in 0..Len(tkinter.course_tree) : tk_gui_delete_course(k)
TkAssignInstructor ==
    \E i \in 0..Len(tkinter.instructor_dropdown),
       c \in 0..Len(tkinter.course_dropdown) : tk_assign_instructor(i, c)

NextTk ==
    \/ TkStart
    \/ TkAddInstructorNamed \/ TkAddCourseMath
    \/ TkDeleteInstructor \/ TkDeleteCourse
    \/ TkAssignInstructor

SpecTk == Init /\ [][NextTk]_vars

-----------------------------------------------------------------------------
(* Properties *)

InvalidEmailDialog == [icon |-> "Critical", title |-> "Error", text |-> "Invalid email format."]
AlreadyRegisteredDialog ==
    [icon |-> "Critical", title |-> "Error",
     text |-> "Registration failed. This student is already registered for this course."]
CourseExistsDialog(course_name) ==
    [icon |-> "Critical", title |-> "Error",
     text |-> "Course with name '" \o course_name \o "' already exists."]
NoInstructorDialog(instructor_id) ==
    [icon |-> "Critical", title |-> "Error",
     text |-> "Instructor ID " \o Str(instructor_id) \o " does not exist."]

\* C1: in every reachable state student_courses holds at most one row for any
\* (student_id, course_id) pair.
C1_EnrolledAtMostOnce ==
    \A r \in BagToSet(student_courses) : CopiesIn(r, student_courses) <= 1

\* C2: in every reachable state no two rows of courses have the same course_name.
C2_CourseNamesUnique ==
    \A a \in courses, b \in courses : a.course_name = b.course_name => a = b

\* C3: in every reachable state the email of every students and instructors row
\* is one validate_email accepts.
C3_EmailsValid ==
    \A r \in students \cup instructors : validate_email(r.email)

\* C4: in every reachable state the age of every students and instructors row
\* is positive.
C4_AgesPositive ==
    \A r \in students \cup instructors : r.age > 0

\* C5: in every reachable state every courses row with a non-NULL instructor_id
\* names an instructor_id present in the instructors table.
C5_CourseInstructorExists ==
    \A c \in courses :
        c.instructor_id # NULL =>
            \E i \in instructors : Val(i.instructor_id) = c.instructor_id

\* C6: register_student_course(s, c) called when a row (s, c) is already in
\* student_courses changes no table and reports the 'Registration failed' error.
C6_DuplicateRegistrationRejected ==
    [][\A s \in SqlIds, k \in SqlIds :
          (/\ register_student_course(s, k)
           /\ BagIn([student_id |-> s, course_id |-> k], student_courses))
          => (UNCHANGED tables /\ dialogs' = <<AlreadyRegisteredDialog>>)]_vars

\* C7: add_course with a course_name some courses row already has, and an
\* instructor_id that exists, leaves courses unchanged and reports
\* "Course with name '<name>' already exists."
C7_DuplicateCourseNameRejected ==
    [][\A c \in CourseNames, i \in SqlIds :
          (/\ add_course(c, i)
           /\ \E r \in courses : r.course_name = c
           /\ \E r \in instructors : Val(r.instructor_id) = i)
          => (courses' = courses /\ dialogs' = <<CourseExistsDialog(c)>>)]_vars

\* a duplicate name was refused while its instructor exists
C7_Witness ==
    /\ lastCall = "add_course"
    /\ \E r \in courses : dialogs = <<CourseExistsDialog(r.course_name)>>
    /\ instructors # {}

\* C8: add_course with an instructor_id matching no instructors row leaves
\* courses unchanged and reports 'Instructor ID <id> does not exist.'
C8_UnknownInstructorRejected ==
    [][\A c \in CourseNames, i \in SqlIds :
          (/\ add_course(c, i)
           /\ ~ \E r \in instructors : Val(r.instructor_id) = i)
          => (courses' = courses /\ dialogs' = <<NoInstructorDialog(i)>>)]_vars

\* an unknown instructor id was refused while another instructor exists
C8_Witness ==
    /\ lastCall = "add_course"
    /\ \E i \in Ids :
          /\ dialogs = <<NoInstructorDialog(Val(i))>>
          /\ ~ \E r \in instructors : r.instructor_id = i
    /\ instructors # {}

\* C9: update_course_instructor gives a course only the id of an instructor
\* present in instructors at the time of the call; naming a non-existent or
\* NULL instructor leaves every course row unchanged.
C9_AssignOnlyExistingInstructor ==
    [][\A k \in SqlIds, i \in SqlIds :
          update_course_instructor(k, i)
          => /\ \A c \in courses' :
                   \/ c \in courses
                   \/ \E r \in instructors : Val(r.instructor_id) = c.instructor_id
             /\ (~ \E r \in instructors : Val(r.instructor_id) = i)
                   => courses' = courses]_vars

\* C10: add_student and add_instructor with an email validate_email rejects
\* change no table and report 'Invalid email format.', whatever name and age.
C10_InvalidEmailRejected ==
    [][\A n \in Names, a \in AddAges, e \in Emails :
          (/\ add_student(n, a, e) \/ add_instructor(n, a, e)
           /\ ~ validate_email(e))
          => (UNCHANGED tables /\ dialogs' = <<InvalidEmailDialog>>)]_vars

\* an invalid email was refused by add_student and by add_instructor
C10_Witness ==
    /\ lastCall \in {"add_student", "add_instructor"}
    /\ dialogs = <<InvalidEmailDialog>>


AgeDialog == [icon |-> "Critical", title |-> "Error", text |-> "Age must be positive."]

\* C11: add_student and add_instructor with an email validate_email accepts and
\* an age <= 0 change no table and report 'Age must be positive.'
C11_NonPositiveAgeRejected ==
    [][\A n \in Names, a \in AddAges, e \in Emails :
          (/\ add_student(n, a, e) \/ add_instructor(n, a, e)
           /\ validate_email(e)
           /\ a <= 0)
          => (UNCHANGED tables /\ dialogs' = <<AgeDialog>>)]_vars

\* a non-positive age was refused
C11_Witness ==
    /\ lastCall \in {"add_student", "add_instructor"}
    /\ dialogs = <<AgeDialog>>

\* every name, id and new id a call of the specifications can carry
AllNames == Names \cup CrudNames
NewIds == 1..(MaxId + 1)

\* C12: after add_student(name, age, email) with a valid email and age > 0,
\* get_students returns the rows it returned before followed by one new row
\* (new_id, name, age, email); likewise add_instructor / get_instructors, and
\* add_course / get_courses when the instructor exists and the name is unused.
C12_AddThenGet ==
    [][/\ \A n \in AllNames, a \in AddAges, e \in Emails :
             (add_student(n, a, e) /\ validate_email(e) /\ a > 0)
             => \E id \in NewIds :
                   /\ \A r \in students : r.student_id # id
                   /\ get_students' = Append(get_students, <<id, n, a, e>>)
       /\ \A n \in AllNames, a \in AddAges, e \in Emails :
             (add_instructor(n, a, e) /\ validate_email(e) /\ a > 0)
             => \E id \in NewIds :
                   /\ \A r \in instructors : r.instructor_id # id
                   /\ get_instructors' = Append(get_instructors, <<id, n, a, e>>)
       /\ \A c \in CourseNames, i \in SqlIds :
             (/\ add_course(c, i)
              /\ \E r \in instructors : Val(r.instructor_id) = i
              /\ \A r \in courses : r.course_name # c)
             => \E id \in NewIds :
                   /\ \A r \in courses : r.course_id # id
                   /\ get_courses' = Append(get_courses, <<id, c, i>>)]_vars

\* a student, an instructor and a course were each added to a table that
\* already held (or had held) a row
C12_Witness ==
    /\ lastCall \in {"add_student", "add_instructor", "add_course"}
    /\ Len(dialogs) = 1 /\ dialogs[1].title = "Success"
    /\ Len(get_students) = 2 /\ get_students[2][2] = "Bob"
    /\ Len(get_instructors) >= 1
    /\ Len(get_courses) = 1 /\ get_courses[1][1] = 2

\* C13: after update_student(id, name, age, email) on an existing id,
\* get_students returns (id, name, age, email) for that id and every other row
\* as before; likewise update_instructor and update_course(id, course_name,
\* instructor_id).  (lastCall' names the method of the step.)
C13_UpdateThenGet ==
    [][/\ lastCall' = "update_student"
          => \A before \in {get_students}, after \in {get_students'} :
                 \A i \in {r.student_id : r \in students} :
                 \A n \in AllNames, a \in Ages, e \in Emails :
                    update_student(i, n, a, e)
                    => /\ Len(after) = Len(before)
                       /\ \A k \in 1..Len(before) :
                             after[k] = IF before[k][1] = i THEN <<i, n, a, e>>
                                        ELSE before[k]
       /\ lastCall' = "update_instructor"
          => \A before \in {get_instructors}, after \in {get_instructors'} :
                 \A i \in {r.instructor_id : r \in instructors} :
                 \A n \in AllNames, a \in Ages, e \in Emails :
                    update_instructor(i, n, a, e)
                    => /\ Len(after) = Len(before)
                       /\ \A k \in 1..Len(before) :
                             after[k] = IF before[k][1] = i THEN <<i, n, a, e>>
                                        ELSE before[k]
       /\ lastCall' = "update_course"
          => \A before \in {get_courses}, after \in {get_courses'} :
                 \A i \in {r.course_id : r \in courses} :
                 \A c \in CourseNames, t \in SqlIds :
                    update_course(i, c, t)
                    => /\ Len(after) = Len(before)
                       /\ \A k \in 1..Len(before) :
                             after[k] = IF before[k][1] = i THEN <<i, c, t>>
                                        ELSE before[k]]_vars

\* an update has run on a table of two students that now carry different names,
\* beside an instructor and a course
C13_Witness ==
    /\ lastCall = "update_student"
    /\ get_students = << <<1, "Bob", 1, GoodEmail>>, <<2, "Ann", 1, GoodEmail>> >>
    /\ instructors # {}
    /\ courses # {}

\* the tuples of rows whose first field is not id, in the same order
WithoutId(rows, id) == SelectSeq(rows, LAMBDA t : t[1] # id)

\* C14: after delete_student(id) on an existing id, get_students returns the
\* rows it returned before minus the row with that id; likewise
\* delete_instructor / get_instructors and delete_course / get_courses.
C14_DeleteThenGet ==
    [][/\ \A i \in Ids :
             (delete_student(i) /\ \E r \in students : r.student_id = i)
             => /\ get_students' = WithoutId(get_students, i)
                /\ Len(get_students') = Len(get_students) - 1
       /\ \A i \in Ids :
             (delete_instructor(i) /\ \E r \in instructors : r.instructor_id = i)
             => /\ get_instructors' = WithoutId(get_instructors, i)
                /\ Len(get_instructors') = Len(get_instructors) - 1
       /\ \A i \in Ids :
             (delete_course(i) /\ \E r \in courses : r.course_id = i)
             => /\ get_courses' = WithoutId(get_courses, i)
                /\ Len(get_courses') = Len(get_courses) - 1]_vars

\* student 1 of two students has been deleted; an instructor and a course remain
C14_Witness ==
    /\ lastCall = "delete_student"
    /\ seq.students = 2
    /\ get_students = << <<2, "Bob", 1, GoodEmail>> >>
    /\ instructors # {}
    /\ courses # {}

\* s is local@domain.tld: local one or more of [a-zA-Z0-9._%+-], domain one or
\* more of [a-zA-Z0-9.-], tld two or more ASCII letters, and nothing else
HasEmailForm(s) ==
    \E a \in 1..Len(s), d \in 1..Len(s) :
        LET local == SubSeq(s, 1, a - 1)
            domain == SubSeq(s, a + 1, d - 1)
            tld == SubSeq(s, d + 1, Len(s))
        IN  /\ a < d
            /\ s = local \o <<"@">> \o domain \o <<".">> \o tld
            /\ Len(local) >= 1 /\ \A k \in 1..Len(local) : local[k] \in LocalChars
            /\ Len(domain) >= 1 /\ \A k \in 1..Len(domain) : domain[k] \in DomainChars
            /\ Len(tld) >= 2 /\ \A k \in 1..Len(tld) : tld[k] \in Lower \cup Upper

\* C15: validate_email(email) is True exactly when the whole string has the
\* form local@domain.tld; a string with any other character (a space, a second
\* '@', a trailing newline) or without '@' or the final '.tld' is rejected.
C15_ValidateEmailExact ==
    [][\A e \in EmailStrings :
          add_student("Ann", 1, e)
          => /\ validate_email(e) <=> HasEmailForm(e)
             /\ (dialogs' = <<InvalidEmailDialog>>) <=> ~HasEmailForm(e)]_vars

\* the tkinter call r, made on the tables before the step, leaves the tables
\* the PyQt call of this step leaves, and shows an error box exactly when the
\* PyQt call does
SameOutcome(r) ==
    \A o \in {r} :
        /\ o.db.students = students'
        /\ o.db.instructors = instructors'
        /\ o.db.courses = courses'
        /\ o.db.student_courses = student_courses'
        /\ o.db.seq = seq'
        /\ (\E k \in 1..Len(o.dialogs) : o.dialogs[k].icon = "error")
               <=> (\E k \in 1..Len(dialogs') : dialogs'[k].icon = "Critical")

\* C16: the Database classes of src/pyqt.py and src/tkinter.py, started on the
\* same tables and given the same call with the same arguments, end with the
\* same contents in all four tables and both accept or both reject the call;
\* holding for every call of a sequence, it holds for the sequence.  (lastCall'
\* names the method of the step, which selects the calls to compare.)
C16_DatabasesEquivalent ==
    [][/\ lastCall' \in {"add_student", "add_instructor"}
          => \A n \in AllNames, a \in AddAges, e \in Emails :
                /\ add_student(n, a, e) => SameOutcome(tk_add_student(n, a, e))
                /\ add_instructor(n, a, e) => SameOutcome(tk_add_instructor(n, a, e))
       /\ lastCall' \in {"update_student", "update_instructor"}
          => \A i \in Ids, n \in AllNames, a \in Ages, e \in Emails :
                /\ update_student(i, n, a, e)
                       => SameOutcome(tk_update_student(i, n, a, e))
                /\ update_instructor(i, n, a, e)
                       => SameOutcome(tk_update_instructor(i, n, a, e))
       /\ lastCall' \in {"delete_student", "delete_instructor", "delete_course"}
          => \A i \in Ids :
                /\ delete_student(i) => SameOutcome(tk_delete_student(i))
                /\ delete_instructor(i) => SameOutcome(tk_delete_instructor(i))
                /\ delete_course(i) => SameOutcome(tk_delete_course(i))
       /\ lastCall' \in {"add_course", "update_course"}
          => \A c \in CourseNames, t \in SqlIds :
                /\ add_course(c, t) => SameOutcome(tk_add_course(c, t))
                /\ \A i \in Ids :
                      update_course(i, c, t) => SameOutcome(tk_update_course(i, c, t))
       /\ lastCall' \in {"update_course_instructor", "register_student_course"}
          => \A k \in SqlIds, t \in SqlIds :
                /\ update_course_instructor(k, t)
                       => SameOutcome(tk_update_course_instructor(k, t))
                /\ register_student_course(k, t)
                       => SameOutcome(tk_register_student_course(k, t))]_vars

\* a second registration has been accepted (the PyQt class reports it, the
\* tkinter class stays silent) on tables holding students, instructors, courses
C16_Witness ==
    /\ lastCall = "register_student_course"
    /\ dialogs = <<show_info("Success", "Student registered for course successfully.")>>
    /\ BagCardinality(student_courses) = 2
    /\ students # {} /\ instructors # {} /\ courses # {}

\* C17: every write of the Database layer changes rows of at most one table:
\* the student methods only students, the instructor methods only instructors,
\* the course methods and update_course_instructor only courses, and
\* register_student_course only student_courses; so delete_student and
\* delete_course leave student_courses, and delete_instructor leaves courses.
C17_OneTablePerWrite ==
    [][/\ lastCall' \in {"add_student", "update_student", "delete_student"}
          => UNCHANGED <<instructors, courses, student_courses>>
       /\ lastCall' \in {"add_instructor", "update_instructor", "delete_instructor"}
          => UNCHANGED <<students, courses, student_courses>>
       /\ lastCall' \in {"add_course", "update_course", "delete_course",
                         "update_course_instructor"}
          => UNCHANGED <<students, instructors, student_courses>>
       /\ lastCall' = "register_student_course"
          => UNCHANGED <<students, instructors, courses>>
       /\ \A i \in Ids :
             /\ delete_student(i) \/ delete_course(i) => UNCHANGED student_courses
             /\ delete_instructor(i) => UNCHANGED courses]_vars

\* student 1 has just been deleted and the enrollment row of student 1 is
\* still in student_courses
C17_Witness ==
    /\ lastCall = "delete_student"
    /\ seq.students >= 1
    /\ \A r \in students : r.student_id # 1
    /\ \E p \in BagToSet(student_courses) : p.student_id = Val(1)

\* entry texts that are not a number
NonNumeric == {<<"x">>, <<>>}
\* entry texts of a number that is not positive
NonPositive == {<<"0">>, <<"-", "1">>}

\* the step showed an error box and its handler returned
ErrorShownAndReturned ==
    /\ \E k \in 1..Len(dialogs') : dialogs'[k].icon \in {"Critical", "error"}
    /\ raised' = "none"

\* C18: a write started from either front-end that meets an invalid email, a
\* non-positive age, a non-numeric age or instructor-id entry, or an
\* IntegrityError raised by an INSERT shows an error dialog and its handler
\* returns normally; no write ends with an uncaught exception.
C18_FailuresEndInDialog ==
    [][/\ \A n \in Names, t \in AgeTexts, e \in Emails :
             (/\ \/ gui_add_student(n, t, e) \/ gui_add_instructor(n, t, e)
                 \/ tk_gui_add_student(n, t, e) \/ tk_gui_add_instructor(n, t, e)
              /\ e = BadEmail \/ t \in NonPositive \/ t \in NonNumeric)
             => ErrorShownAndReturned
       /\ \A t \in NonNumeric :
             gui_add_course("Math", t) \/ tk_gui_add_course("Math", t)
             => ErrorShownAndReturned
       /\ \A s \in SqlIds, k \in SqlIds :
             (/\ register_student_course(s, k)
              /\ s # NULL /\ k # NULL
              /\ BagIn([student_id |-> s, course_id |-> k], student_courses))
             => ErrorShownAndReturned
       /\ raised' = "none"]_vars

\* C20: in the tkinter front-end, pressing Register with a student and a course
\* selected calls register_student_course with their ids, so the pair
\* (student_id, course_id) is in student_courses afterwards.
C20_RegisterButtonRegisters ==
    [][\A s \in students, c \in courses :
          tk_register_course(s.name, c.course_name)
          => /\ lastCall' = "register_student_course"
             /\ BagIn([student_id |-> Val(s.student_id),
                       course_id |-> Val(c.course_id)], student_courses')]_vars

\* C19: constructing a Database on a file that already holds the four tables
\* (create_tables run again) leaves every row of every table as the last call
\* left it, and the ids still to be handed out too; running it again changes
\* nothing either.
C19_RestartKeepsRows ==
    [][create_tables
       => /\ get_students' = get_students
          /\ get_instructors' = get_instructors
          /\ get_courses' = get_courses
          /\ student_courses' = student_courses
          /\ seq' = seq]_vars

\* the program was restarted with rows in all four tables
C19_Witness ==
    /\ lastCall = "__init__"
    /\ Len(get_students) >= 1
    /\ Len(get_instructors) >= 1
    /\ Len(get_courses) >= 1
    /\ BagCardinality(student_courses) >= 1

\* C22: in every reachable state every row of student_courses names a
\* student_id present in students and a course_id present in courses (so a
\* register_student_course with an id matching no row has inserted nothing).
C22_EnrollmentsReferenceRows ==
    \A p \in BagToSet(student_courses) :
        /\ \E s \in students : Val(s.student_id) = p.student_id
        /\ \E c \in courses : Val(c.course_id) = p.course_id

\* C25: ids are never reused.  sqlite_sequence (seq) never decreases and is at
\* least every id in its table, and the id of a row that a step adds to
\* students, instructors or courses is greater than seq was before the step:
\* greater than every id given before, those of deleted rows included.
C25_IdsNeverReused ==
    [][/\ seq'.students >= seq.students
       /\ seq'.instructors >= seq.instructors
       /\ seq'.courses >= seq.courses
       /\ \A r \in students : r.student_id <= seq.students
       /\ \A r \in instructors : r.instructor_id <= seq.instructors
       /\ \A r \in courses : r.course_id <= seq.courses
       /\ \A r \in students' :
             (\A q \in students : q.student_id # r.student_id)
             => r.student_id > seq.students
       /\ \A r \in instructors' :
             (\A q \in instructors : q.instructor_id # r.instructor_id)
             => r.instructor_id > seq.instructors
       /\ \A r \in courses' :
             (\A q \in courses : q.course_id # r.course_id)
             => r.course_id > seq.courses]_vars

\* a student, an instructor and a course were each added after row 1 of their
\* table had been deleted, and each got id 2
C25_Witness ==
    /\ {r.student_id : r \in students} = {2}
    /\ {r.instructor_id : r \in instructors} = {2}
    /\ {r.course_id : r \in courses} = {2}

\* new is old with exactly one more row
OneRowInserted(old, new) ==
    old \subseteq new /\ Cardinality(new) = Cardinality(old) + 1

\* the step showed one dialog: the success dialog if the table went from old to
\* new by one inserted row, an error dialog if the table is unchanged
OneDialogFor(old, new) ==
    /\ Len(dialogs') = 1
    /\ \/ /\ dialogs'[1].icon \in {"Information", "info"}
          /\ dialogs'[1].title = "Success"
          /\ OneRowInserted(old, new)
       \/ /\ dialogs'[1].icon \in {"Critical", "error"}
          /\ dialogs'[1].title = "Error"
          /\ new = old

\* C26: every call of add_student, add_instructor or add_course, of either
\* Database class, shows exactly one dialog: the success dialog exactly when
\* one row was inserted, otherwise one error dialog; with an invalid email and
\* an age <= 0 the one dialog of add_student / add_instructor is 'Invalid email
\* format.'
C26_OneDialogPerAdd ==
    [][/\ lastCall' = "add_student"
          => \A n \in Names, a \in AddAges, e \in Emails :
                add_student(n, a, e)
                   \/ tk_call("add_student", tk_add_student(n, a, e))
                => /\ OneDialogFor(students, students')
                   /\ (e = BadEmail /\ a <= 0)
                          => dialogs'[1].text = "Invalid email format."
       /\ lastCall' = "add_instructor"
          => \A n \in Names, a \in AddAges, e \in Emails :
                add_instructor(n, a, e)
                   \/ tk_call("add_instructor", tk_add_instructor(n, a, e))
                => /\ OneDialogFor(instructors, instructors')
                   /\ (e = BadEmail /\ a <= 0)
                          => dialogs'[1].text = "Invalid email format."
       /\ lastCall' = "add_course"
          => \A c \in CourseNames, t \in SqlIds :
                add_course(c, t) \/ tk_call("add_course", tk_add_course(c, t))
                => OneDialogFor(courses, courses')]_vars

\* an add_instructor call has been refused for its email while a course exists
C26_Witness ==
    /\ lastCall = "add_instructor"
    /\ dialogs = <<InvalidEmailDialog>> \/ dialogs = <<showerror("Error", "Invalid email format.")>>
    /\ courses # {}

\* C27: add_course looks the instructor up before the course name: a call
\* whose instructor_id matches no instructor and whose course_name is taken
\* reports only 'Instructor ID <id> does not exist.', and the duplicate-name
\* error is reported only when the instructor exists.
C27_InstructorCheckedFirst ==
    [][\A c \in CourseNames, i \in SqlIds :
          add_course(c, i)
          => /\ (/\ \A r \in instructors : Val(r.instructor_id) # i
                 /\ \E r \in courses : r.course_name = c)
                => dialogs' = <<NoInstructorDialog(i)>>
             /\ (\E k \in 1..Len(dialogs') : dialogs'[k] = CourseExistsDialog(c))
                => \E r \in instructors : Val(r.instructor_id) = i]_vars

\* an unknown instructor was reported while every course name tried is taken
C27_Witness ==
    /\ lastCall = "add_course"
    /\ \E i \in SqlIds : dialogs = <<NoInstructorDialog(i)>>
    /\ \A c \in CourseNames : \E r \in courses : r.course_name = c

\* the step changed no table, showed no dialog and raised nothing
NoOp ==
    /\ UNCHANGED tables
    /\ dialogs' = <<>>
    /\ raised' = "none"

\* C28: update_student, update_instructor, update_course,
\* update_course_instructor, delete_student, delete_instructor and
\* delete_course called with an id that matches no row change none of the four
\* tables, create no row and report no error.
C28_MissingIdIsNoOp ==
    [][/\ lastCall' \in {"update_student", "delete_student"}
          => \A i \in Ids \ {r.student_id : r \in students} :
                /\ delete_student(i) => NoOp
                /\ \A n \in AllNames, a \in Ages, e \in Emails :
                      update_student(i, n, a, e) => NoOp
       /\ lastCall' \in {"update_instructor", "delete_instructor"}
          => \A i \in Ids \ {r.instructor_id : r \in instructors} :
                /\ delete_instructor(i) => NoOp
                /\ \A n \in AllNames, a \in Ages, e \in Emails :
                      update_instructor(i, n, a, e) => NoOp
       /\ lastCall' \in {"update_course", "delete_course"}
          => \A i \in Ids \ {r.course_id : r \in courses} :
                /\ delete_course(i) => NoOp
                /\ \A c \in CourseNames, t \in SqlIds :
                      update_course(i, c, t) => NoOp
       /\ lastCall' = "update_course_instructor"
          => \A k \in SqlIds \ {Val(r.course_id) : r \in courses}, t \in SqlIds :
                update_course_instructor(k, t) => NoOp]_vars

\* update_instructor has run while instructors was empty (so its id matched no
\* row), beside rows in students and courses
C28_Witness ==
    /\ lastCall = "update_instructor"
    /\ instructors = {}
    /\ students # {}
    /\ courses # {}

\* the rows cs with the instructor_id of course k set to t and nothing else
\* changed
Assigned(cs, k, t) ==
    {IF Val(r.course_id) = k
     THEN [course_id |-> r.course_id, course_name |-> r.course_name,
           instructor_id |-> t]
     ELSE r : r \in cs}

\* C29: update_course_instructor(course_id, instructor_id) changes only the
\* instructor_id of the course with that course_id: its course_id and
\* course_name, every other course row, and students, instructors and
\* student_courses are unchanged; a second call with the same arguments
\* changes nothing more.
C29_AssignChangesOneColumn ==
    [][lastCall' = "update_course_instructor"
       => \A k \in SqlIds, t \in SqlIds :
             update_course_instructor(k, t)
             => /\ courses' = Assigned(courses, k, t)
                /\ Assigned(courses', k, t) = courses'
                /\ \A r \in courses :
                      \E q \in courses' :
                         /\ q.course_id = r.course_id
                         /\ q.course_name = r.course_name
                         /\ Val(r.course_id) # k => q = r
                /\ UNCHANGED <<students, instructors, student_courses>>]_vars

\* an assignment has run and, of two courses, one has lost its instructor while
\* the other kept it
C29_Witness ==
    /\ lastCall = "update_course_instructor"
    /\ Cardinality(courses) = 2
    /\ \E r \in courses : r.instructor_id = NULL
    /\ \E r \in courses : r.instructor_id # NULL

\* the id a dropdown's chosen item carries is the id of a row of the table
Existing(ids, data) == \E i \in ids : Val(i) = data

\* C21: in the PyQt front-end, every registration made through the Register tab
\* and every assignment made through the Assign Instructor tab uses ids of a
\* student, a course and an instructor that are in the database at that
\* moment: whatever was added, deleted, edited, registered or assigned before,
\* the dropdowns name exactly the rows the tables hold.
C21_DropdownsNameExistingRows ==
    [][/\ \A s \in Choices(pyqt.student_dropdown),
             k \in Choices(pyqt.course_dropdown) :
             gui_register_student(s, k)
             => /\ Existing({r.student_id : r \in students},
                            currentData(pyqt.student_dropdown, s))
                /\ Existing({r.course_id : r \in courses},
                            currentData(pyqt.course_dropdown, k))
                /\ pyqt.student_dropdown = item_data(get_students)
                /\ pyqt.course_dropdown = item_data(get_courses)
       /\ \A k \in Choices(pyqt.assign_course_dropdown),
             i \in Choices(pyqt.assign_instructor_dropdown) :
             gui_assign_instructor(k, i)
             => /\ Existing({r.course_id : r \in courses},
                            currentData(pyqt.assign_course_dropdown, k))
                /\ Existing({r.instructor_id : r \in instructors},
                            currentData(pyqt.assign_instructor_dropdown, i))
                /\ pyqt.assign_course_dropdown = item_data(get_courses)
                /\ pyqt.assign_instructor_dropdown = item_data(get_instructors)]_vars

\* a table widget of the PyQt window holds one row of texts per row of the
\* database table and nothing else
ShowsStudents ==
    /\ Len(pyqt.student_table) = Cardinality(students)
    /\ \A r \in students :
          \E k \in 1..Len(pyqt.student_table) :
             pyqt.student_table[k]
                 = <<str(r.student_id), r.name, str(r.age), r.email>>
ShowsInstructors ==
    /\ Len(pyqt.instructor_table) = Cardinality(instructors)
    /\ \A r \in instructors :
          \E k \in 1..Len(pyqt.instructor_table) :
             pyqt.instructor_table[k]
                 = <<str(r.instructor_id), r.name, str(r.age), r.email>>
ShowsCourses ==
    /\ Len(pyqt.course_table) = Cardinality(courses)
    /\ \A r \in courses :
          \E k \in 1..Len(pyqt.course_table) :
             pyqt.course_table[k]
                 = <<str(r.course_id), r.course_name, str_or_None(r.instructor_id)>>

\* C23: in the PyQt front-end, after every add, delete or edit handler that ran
\* to its end and called the Database (a row was selected, the dialogs were
\* not left empty, no exception was raised), the table widget of that entity
\* shows exactly the rows of the database table: one widget row per database
\* row, no stale row and no duplicate, also when the widget was stale before.
C23_TablesShowDatabaseRows ==
    [][/\ (/\ lastCall' \in {"add_student", "delete_student", "update_student"}
           /\ raised' = "none"
           /\ \/ gui_add_student("Ann", <<"1">>, GoodEmail)
              \/ \E r \in Rows(pyqt.student_table) : gui_delete_student(r)
              \/ \E r \in Rows(pyqt.student_table) :
                    gui_edit_student(r, "Bob", 1, GoodEmail))
          => ShowsStudents'
       /\ (/\ lastCall' \in {"add_instructor", "delete_instructor",
                             "update_instructor"}
           /\ raised' = "none"
           /\ \/ gui_add_instructor("Ann", <<"1">>, GoodEmail)
              \/ \E r \in Rows(pyqt.instructor_table) : gui_delete_instructor(r)
              \/ \E r \in Rows(pyqt.instructor_table) :
                    gui_edit_instructor(r, "Ann", 1, GoodEmail))
          => ShowsInstructors'
       /\ (/\ lastCall' \in {"add_course", "delete_course", "update_course"}
           /\ raised' = "none"
           /\ \/ \E t \in QtIdTexts : gui_add_course("Math", t)
              \/ \E r \in Rows(pyqt.course_table) : gui_delete_course(r)
              \/ \E r \in Rows(pyqt.course_table), i \in Ids :
                    gui_edit_course(r, "Math", i))
          => ShowsCourses']_vars

\* an edit of a course has just run in a window whose Assign tab offers a
\* course, and the course table shows the instructor the database now holds
C23_Witness ==
    /\ window = "pyqt"
    /\ lastCall = "update_course"
    /\ raised = "none"
    /\ pyqt.assign_course_dropdown # <<>>
    /\ \E r \in courses : r.instructor_id = Val(2)
    /\ pyqt.course_table # <<>>
    /\ ShowsCourses

\* C24: in the tkinter front-end, the refresh that ends add_student,
\* add_instructor and add_course leaves the tree of that entity showing
\* exactly the rows of the database table, each once and in row order,
\* however many adds came before.
C24_TreesShowDatabaseRows ==
    [][/\ TkAddStudent /\ raised' = "none"
          => tkinter'.student_tree = get_students'
       /\ TkAddInstructor /\ raised' = "none"
          => tkinter'.instructor_tree = get_instructors'
       /\ TkAddCourse /\ raised' = "none"
          => tkinter'.course_tree = get_courses']_vars

\* the ids of the instructors the entry at a position of the instructor
\* dropdown stands for: while the dropdown lists the table as it is, the row
\* at that position; once rows were deleted under it, any row of that name
Selected(instructor_index) ==
    IF tkinter.instructor_dropdown = populate(get_instructors)
    THEN {get_instructors[instructor_index][1]}
    ELSE {r.instructor_id :
            r \in {x \in instructors :
                     x.name = tkinter.instructor_dropdown[instructor_index]}}

\* C30: in the tkinter front-end, assign_instructor changes the database only
\* when an instructor and a course are selected and both names resolve; the
\* course of the selected name then gets the id of the selected instructor as
\* its instructor_id, also when another instructor has the same name; in every
\* other case an error box is shown and courses is unchanged.
C30_AssignBySelectedNames ==
    [][\A i \in 0..Len(tkinter.instructor_dropdown),
          c \in 0..Len(tkinter.course_dropdown) :
          tk_assign_instructor(i, c)
          => IF /\ i # 0
                /\ c # 0
                /\ get_instructor_id_by_name(tkinter.instructor_dropdown[i]) # NULL
                /\ get_course_id_by_name(tkinter.course_dropdown[c]) # NULL
             THEN \E t \in Selected(i) :
                     courses' = Assigned(courses,
                         get_course_id_by_name(tkinter.course_dropdown[c]), Val(t))
             ELSE /\ \E k \in 1..Len(dialogs') : dialogs'[k].icon = "error"
                  /\ courses' = courses]_vars
=============================================================================
